---- MODULE Spec2Model ----
(***************************************************************************)
(* Model of src/qe/qe_arith.cpp: model-based projection and optimisation   *)
(* for linear arithmetic (arith_project_plugin::imp).                      *)
(*                                                                         *)
(* Terms are records; numerals and model values are integers (the          *)
(* rational arithmetic of the source is exercised on its integer part).    *)
(* The engine opt::model_based_opt is not part of qe_arith.cpp; it is      *)
(* modelled from its contract (spec section 4.2).                          *)
(***************************************************************************)
EXTENDS Integers, Sequences, FiniteSets, TLC

\* model values of arithmetic constants range over 0..MaxVal
MaxVal == 1
\* the literal list given to an entry point holds at most MaxLits literals
MaxLits == 2

Vals == 0..MaxVal

(***************************************************************************)
(* Terms (the host AST).  Hash-consing makes pointer equality structural   *)
(* equality, which is record equality here.                                *)
(***************************************************************************)
Var(n, s) == [k |-> "var", n |-> n, v |-> 0, s |-> s, a |-> <<>>]
Num(v, s) == [k |-> "num", n |-> "", v |-> v, s |-> s, a |-> <<>>]
Op(k, s, a) == [k |-> k, n |-> "", v |-> 0, s |-> s, a |-> a]
App(f, s, a) == [k |-> "app", n |-> f, v |-> 0, s |-> s, a |-> a]

is_int(t) == t.s = "int"
is_real(t) == t.s = "real"
is_arith(e) == is_int(e) \/ is_real(e)
is_uninterp_const(e) == e.k = "var"

mk_numeral(v, int) == Num(v, IF int THEN "int" ELSE "real")
mk_add(ts) == Op("add", ts[1].s, ts)
mk_sub(t1, t2) == Op("sub", t1.s, <<t1, t2>>)
mk_mul(t1, t2) == Op("mul", t1.s, <<t1, t2>>)
mk_uminus(t1) == Op("neg", t1.s, <<t1>>)
mk_mod(t1, t2) == Op("mod", "int", <<t1, t2>>)
mk_ite(g, t2, t3) == Op("ite", t2.s, <<g, t2, t3>>)
mk_le(t1, t2) == Op("le", "bool", <<t1, t2>>)
mk_lt(t1, t2) == Op("lt", "bool", <<t1, t2>>)
mk_ge(t1, t2) == Op("ge", "bool", <<t1, t2>>)
mk_gt(t1, t2) == Op("gt", "bool", <<t1, t2>>)
mk_eq(t1, t2) == Op("eq", "bool", <<t1, t2>>)
mk_distinct(ts) == Op("distinct", "bool", ts)
mk_false == Op("false", "bool", <<>>)
\* ast_util mk_not on an atom that is not itself a negation
mk_not(t1) == Op("not", "bool", <<t1>>)

RECURSIVE SubtermsOfSeq(_)
RECURSIVE Subterms(_)
Subterms(t) == {t} \cup SubtermsOfSeq(t.a)
SubtermsOfSeq(ts) ==
    IF ts = <<>> THEN {} ELSE Subterms(Head(ts)) \cup SubtermsOfSeq(Tail(ts))

\* mark_rec(visited, e): marks e and every sub-term of e
mark_rec(marks, e) == marks \cup Subterms(e)

(***************************************************************************)
(* The model evaluator.  A model gives each arithmetic constant a value,   *)
(* the Boolean constant b a truth value and the predicate p a (constant)   *)
(* interpretation; it is total, as under model completion.                 *)
(***************************************************************************)
RECURSIVE EvalA(_, _)
RECURSIVE EvalB(_, _)
RECURSIVE SumA(_, _)
SumA(M, ts) == IF ts = <<>> THEN 0 ELSE EvalA(M, Head(ts)) + SumA(M, Tail(ts))

EvalA(M, t) ==
    CASE t.k = "num" -> t.v
      [] t.k = "var" -> M[t.n]
      [] t.k = "add" -> SumA(M, t.a)
      [] t.k = "sub" -> EvalA(M, t.a[1]) - EvalA(M, t.a[2])
      [] t.k = "mul" -> EvalA(M, t.a[1]) * EvalA(M, t.a[2])
      [] t.k = "neg" -> 0 - EvalA(M, t.a[1])
      [] t.k = "mod" -> EvalA(M, t.a[1]) % EvalA(M, t.a[2])
      [] t.k = "ite" -> IF EvalB(M, t.a[1]) THEN EvalA(M, t.a[2])
                                            ELSE EvalA(M, t.a[3])

EvalB(M, t) ==
    CASE t.k = "var" -> M[t.n]
      [] t.k = "app" -> M[t.n]
      [] t.k = "false" -> FALSE
      [] t.k = "not" -> ~EvalB(M, t.a[1])
      [] t.k = "le" -> EvalA(M, t.a[1]) <= EvalA(M, t.a[2])
      [] t.k = "lt" -> EvalA(M, t.a[1]) < EvalA(M, t.a[2])
      [] t.k = "ge" -> EvalA(M, t.a[1]) >= EvalA(M, t.a[2])
      [] t.k = "gt" -> EvalA(M, t.a[1]) > EvalA(M, t.a[2])
      [] t.k = "eq" -> IF is_arith(t.a[1])
                          THEN EvalA(M, t.a[1]) = EvalA(M, t.a[2])
                          ELSE EvalB(M, t.a[1]) = EvalB(M, t.a[2])
      [] t.k = "distinct" ->
             \A i \in 1..Len(t.a) : \A j \in 1..Len(t.a) :
                 i # j => EvalA(M, t.a[i]) # EvalA(M, t.a[j])

(***************************************************************************)
(* The engine opt::model_based_opt, from its contract.                     *)
(* A row is  SUM m_vars[i].m_coeff * x(m_vars[i].m_id) + m_coeff  R  0,    *)
(* R given by m_type; for t_mod the sum is divisible by m_mod.             *)
(* Variable ids start at 0; id i is kept at index i+1.                     *)
(***************************************************************************)
EmptyMap == [t \in {} |-> 0]

mbo_init == [m_var2value |-> <<>>, m_var2is_int |-> <<>>, m_rows |-> <<>>,
             m_objective |-> [m_vars |-> <<>>, m_coeff |-> 0]]

\* add_var(value, is_int): registers a variable, returns its id
add_var_id(mbo) == Len(mbo.m_var2value)
add_var(mbo, val, int) ==
    [mbo EXCEPT !.m_var2value = Append(@, val), !.m_var2is_int = Append(@, int)]

var(id, coeff) == [m_id |-> id, m_coeff |-> coeff]

\* rows keep their variables in increasing id order
RECURSIVE SortVars(_)
SortVars(cs) ==
    IF cs = <<>> THEN <<>>
    ELSE LET i == CHOOSE i \in 1..Len(cs) :
                      \A j \in 1..Len(cs) : cs[i].m_id <= cs[j].m_id
             rest == [j \in 1..(Len(cs) - 1) |-> IF j < i THEN cs[j] ELSE cs[j + 1]]
         IN <<cs[i]>> \o SortVars(rest)

add_constraint(mbo, coeffs, c, ty) ==
    [mbo EXCEPT !.m_rows = Append(@, [m_vars |-> SortVars(coeffs), m_coeff |-> c,
                                       m_type |-> ty, m_mod |-> 0])]

add_divides(mbo, coeffs, c, m) ==
    [mbo EXCEPT !.m_rows = Append(@, [m_vars |-> SortVars(coeffs), m_coeff |-> c,
                                       m_type |-> "t_mod", m_mod |-> m])]

set_objective(mbo, coeffs, c) ==
    [mbo EXCEPT !.m_objective = [m_vars |-> SortVars(coeffs), m_coeff |-> c]]

RECURSIVE RowSum(_, _)
RowSum(vs, val) ==
    IF vs = <<>> THEN 0
    ELSE Head(vs).m_coeff * val[Head(vs).m_id + 1] + RowSum(Tail(vs), val)

\* the value of a row's left-hand side under an assignment of the ids
RowValue(r, val) == RowSum(r.m_vars, val) + r.m_coeff

RowHolds(r, val) ==
    CASE r.m_type = "t_le" -> RowValue(r, val) <= 0
      [] r.m_type = "t_lt" -> RowValue(r, val) < 0
      [] r.m_type = "t_eq" -> RowValue(r, val) = 0
      [] r.m_type = "t_mod" -> RowValue(r, val) % r.m_mod = 0

(***************************************************************************)
(* The linearizer.                                                         *)
(* A linearization state S carries what the C++ passes by reference:       *)
(*   mbo  the engine,  tids  the term -> id map,  fmls  the literal list,  *)
(*   ts   the accumulator's term -> coefficient map,  c  its constant.     *)
(***************************************************************************)
RECURSIVE is_numeral(_)
RECURSIVE is_numeral_args(_, _, _)
\* folds the arguments of an n-ary product (prod = TRUE) or sum
is_numeral_args(ts, prod, r) ==
    IF ts = <<>> THEN [ok |-> TRUE, r |-> r]
    ELSE LET h == is_numeral(Head(ts))
         IN IF ~h.ok THEN [ok |-> FALSE, r |-> r]
            ELSE is_numeral_args(Tail(ts), prod, IF prod THEN r * h.r ELSE r + h.r)

is_numeral(t) ==
    CASE t.k = "num" -> [ok |-> TRUE, r |-> t.v]
      [] t.k = "neg" -> LET h == is_numeral(t.a[1])
                        IN [ok |-> h.ok, r |-> 0 - h.r]
      [] t.k = "mul" -> is_numeral_args(t.a, TRUE, 1)
      [] t.k = "add" -> is_numeral_args(t.a, FALSE, 0)
      [] t.k = "sub" -> LET h1 == is_numeral(t.a[1])
                            h2 == is_numeral(t.a[2])
                        IN [ok |-> h1.ok /\ h2.ok, r |-> h1.r - h2.r]
      [] OTHER -> [ok |-> FALSE, r |-> 0]

insert_mul(x, v, ts) ==
    IF x \in DOMAIN ts THEN [ts EXCEPT ![x] = @ + v] ELSE (x :> v) @@ ts

\* extract_coefficients: walks ts (obj_map iteration order, here a fixed
\* order of the keys), registers unregistered terms with their model value
\* and keeps the non-zero coefficients.  Result: [mbo, tids, coeffs].
is_registered_never(tids, e) == FALSE
\* tids.find(v, id): the term already has an engine variable
is_registered(tids, e) == e \in DOMAIN tids

RECURSIVE extract_rec(_, _, _, _, _, _)
extract_rec(M, mbo, tids, ts, todo, coeffs) ==
    IF todo = {} THEN [mbo |-> mbo, tids |-> tids, coeffs |-> coeffs]
    ELSE LET e == CHOOSE e \in todo : TRUE
             known == is_registered(tids, e)
             id == IF known THEN tids[e] ELSE add_var_id(mbo)
             mbo1 == IF known THEN mbo ELSE add_var(mbo, EvalA(M, e), is_int(e))
             tids1 == IF known THEN tids ELSE (e :> id) @@ tids
             coeffs1 == IF ts[e] # 0 THEN Append(coeffs, var(id, ts[e])) ELSE coeffs
         IN extract_rec(M, mbo1, tids1, ts, todo \ {e}, coeffs1)

extract_coefficients(M, mbo, ts, tids) ==
    extract_rec(M, mbo, tids, ts, DOMAIN ts, <<>>)

mod_c0_pos(r) == r
\* the accumulator constant of the divisibility row for t1 mod k = r
mod_c0(r) == 0 - r

ite_side_guard(t1, val) == t1
\* the side formula pushed for ite(t1, t2, t3) whose guard has value val
ite_side(t1, val) == IF val THEN t1 ELSE mk_not(t1)

\* mbo.add_divides(coeffs, c0, mul1) for the accumulator S0 of t1, and
\* c += mul * r in the enclosing accumulator S
add_mod_row(S, mul, r, mul1, S0, ec) ==
    [mbo |-> add_divides(ec.mbo, ec.coeffs, S0.c, mul1),
     tids |-> ec.tids, fmls |-> S0.fmls,
     ts |-> S.ts, c |-> S.c + mul * r]

linearize_mod(M, S, mul, r, mul1, S0) ==
    add_mod_row(S, mul, r, mul1, S0,
                extract_coefficients(M, S0.mbo, S0.ts, S0.tids))

\* fmls.push_back of the side formula of an ite
push_side(S, f) == [S EXCEPT !.fmls = Append(@, f)]

RECURSIVE linearize_term(_, _, _, _)
RECURSIVE linearize_args(_, _, _, _)
linearize_args(M, S, mul, args) ==
    IF args = <<>> THEN S
    ELSE linearize_args(M, linearize_term(M, S, mul, Head(args)), mul, Tail(args))

linearize_term(M, S, mul, t) ==
    CASE t.k = "mul" /\ Len(t.a) = 2 /\ is_numeral(t.a[1]).ok ->
             linearize_term(M, S, mul * is_numeral(t.a[1]).r, t.a[2])
      [] t.k = "mul" /\ Len(t.a) = 2 /\ ~is_numeral(t.a[1]).ok /\ is_numeral(t.a[2]).ok ->
             linearize_term(M, S, mul * is_numeral(t.a[2]).r, t.a[1])
      [] t.k = "add" -> linearize_args(M, S, mul, t.a)
      [] t.k = "sub" ->
             linearize_term(M, linearize_term(M, S, mul, t.a[1]), 0 - mul, t.a[2])
      [] t.k = "neg" -> linearize_term(M, S, 0 - mul, t.a[1])
      [] t.k = "num" -> [S EXCEPT !.c = @ + mul * t.v]
      [] t.k = "ite" ->
             IF EvalB(M, t.a[1])
             THEN push_side(linearize_term(M, S, mul, t.a[2]),
                            ite_side(t.a[1], TRUE))
             ELSE linearize_term(M, push_side(S, ite_side(t.a[1], FALSE)),
                                 mul, t.a[3])
      [] t.k = "mod" /\ is_numeral(t.a[2]).ok ->
             linearize_mod(M, S, mul, EvalA(M, t), is_numeral(t.a[2]).r,
                 linearize_term(M, [S EXCEPT !.ts = EmptyMap,
                                             !.c = mod_c0(EvalA(M, t))],
                                1, t.a[1]))
      [] OTHER -> [S EXCEPT !.ts = insert_mul(t, mul, @)]

le_type_noflip(is_not) == "t_le"
\* the row type of a comparison: le_type for e1 <= e2, lt_type for e1 < e2
le_type(is_not) == IF is_not THEN "t_lt" ELSE "t_le"
lt_type(is_not) == IF is_not THEN "t_le" ELSE "t_lt"

\* std::sort(nums, compare_second): the arguments in ascending model value
RECURSIVE sort_nums(_, _)
sort_nums(M, args) ==
    IF args = <<>> THEN <<>>
    ELSE LET i == CHOOSE i \in 1..Len(args) :
                      /\ \A j \in 1..Len(args) : EvalA(M, args[i]) <= EvalA(M, args[j])
                      /\ \A j \in 1..(i - 1) : EvalA(M, args[j]) # EvalA(M, args[i])
             rest == [j \in 1..(Len(args) - 1) |->
                          IF j < i THEN args[j] ELSE args[j + 1]]
         IN <<args[i]>> \o sort_nums(M, rest)

\* the first argument index whose value was already seen (0 if none)
first_collision(M, args) ==
    LET hits == {i \in 1..Len(args) :
                    \E j \in 1..(i - 1) : EvalA(M, args[j]) = EvalA(M, args[i])}
    IN IF hits = {} THEN 0 ELSE CHOOSE i \in hits : \A h \in hits : i <= h

\* linearize(mul, e1); linearize(-mul, e2) on a fresh accumulator
accumulate(M, S, mul, e1, e2) ==
    linearize_term(M,
        linearize_term(M, [mbo |-> S.mbo, tids |-> S.tids, fmls |-> S.fmls,
                           ts |-> EmptyMap, c |-> 0], mul, e1),
        0 - mul, e2)

\* mbo.add_constraint(coeffs, c, ty); return true
add_row(A, ty, ec) ==
    [ok |-> TRUE, mbo |-> add_constraint(ec.mbo, ec.coeffs, A.c, ty),
     tids |-> ec.tids, fmls |-> A.fmls]

\* extract_coefficients(ts); mbo.add_constraint(coeffs, c, ty); return true
submit(M, A, ty) ==
    add_row(A, ty, extract_coefficients(M, A.mbo, A.ts, A.tids))

swap_sides_never(r1, r2) == FALSE
\* if (r1 < r2) std::swap(e1, e2): e1 becomes the larger-valued side
swap_sides(r1, r2) == r1 < r2

\* the sides e1, e2 that a literal of the first four shapes accumulates as
\* +e1, -e2, and the type of its row
literal_sides(M, lit, is_not) ==
    CASE lit.k = "le" -> [e1 |-> lit.a[1], e2 |-> lit.a[2], ty |-> le_type(is_not)]
      [] lit.k = "ge" -> [e1 |-> lit.a[2], e2 |-> lit.a[1], ty |-> le_type(is_not)]
      [] lit.k = "lt" -> [e1 |-> lit.a[1], e2 |-> lit.a[2], ty |-> lt_type(is_not)]
      [] lit.k = "gt" -> [e1 |-> lit.a[2], e2 |-> lit.a[1], ty |-> lt_type(is_not)]
      [] lit.k = "eq" /\ ~is_not ->
             [e1 |-> lit.a[1], e2 |-> lit.a[2], ty |-> "t_eq"]
      [] lit.k = "eq" /\ is_not ->
             IF swap_sides(EvalA(M, lit.a[1]), EvalA(M, lit.a[2]))
             THEN [e1 |-> lit.a[2], e2 |-> lit.a[1], ty |-> "t_lt"]
             ELSE [e1 |-> lit.a[1], e2 |-> lit.a[2], ty |-> "t_lt"]

\* the two arguments of not distinct(...) that are linearized as an equality
collision_sides(M, args, i) ==
    [e1 |-> args[i],
     e2 |-> args[CHOOSE j \in 1..(i - 1) : EvalA(M, args[j]) = EvalA(M, args[i])],
     ty |-> "t_eq"]

linearize_sides(M, S, mul, d) == submit(M, accumulate(M, S, mul, d.e1, d.e2), d.ty)

\* linearize(mbo, eval, lit, fmls, tids): S is [mbo, tids, fmls];
\* the result adds ok, the value returned
RECURSIVE linearize(_, _, _)
RECURSIVE distinct_loop(_, _, _)
distinct_next(M, nums, r) ==
    IF ~r.ok THEN r ELSE distinct_loop(M, r, Tail(nums))

distinct_loop(M, S, nums) ==
    IF Len(nums) < 2
    THEN [ok |-> TRUE, mbo |-> S.mbo, tids |-> S.tids, fmls |-> S.fmls]
    ELSE distinct_next(M, nums, linearize(M, S, mk_lt(nums[1], nums[2])))

linearize(M, S, lit0) ==
    LET is_not == lit0.k = "not"
        lit == IF is_not THEN lit0.a[1] ELSE lit0
        mul == IF is_not THEN 0 - 1 ELSE 1
    IN CASE lit.k \in {"le", "ge", "lt", "gt"}
              \/ (lit.k = "eq" /\ is_arith(lit.a[1])) ->
                linearize_sides(M, S, mul, literal_sides(M, lit, is_not))
         [] lit.k = "distinct" /\ ~is_not /\ is_arith(lit.a[1]) ->
                distinct_loop(M, S, sort_nums(M, lit.a))
         [] lit.k = "distinct" /\ is_not /\ is_arith(lit.a[1]) ->
                IF first_collision(M, lit.a) = 0
                THEN submit(M, [mbo |-> S.mbo, tids |-> S.tids, fmls |-> S.fmls,
                                ts |-> EmptyMap, c |-> 0], "t_le")
                ELSE linearize_sides(M, S, mul,
                         collision_sides(M, lit.a, first_collision(M, lit.a)))
         [] OTHER -> [ok |-> FALSE, mbo |-> S.mbo, tids |-> S.tids, fmls |-> S.fmls]

(***************************************************************************)
(* Engine projection, from the contract: the listed ids are eliminated,    *)
(* every surviving row holds under the seeded values, and no surviving     *)
(* row refers to an eliminated id.  Rows over an eliminated id are         *)
(* resolved against an equality or against the greatest lower bound under  *)
(* the seeds (model-based Fourier-Motzkin); divisibility rows over the id  *)
(* and one-sided bounds are dropped.                                       *)
(***************************************************************************)
CoeffOf(r, id) ==
    IF \E i \in 1..Len(r.m_vars) : r.m_vars[i].m_id = id
    THEN r.m_vars[CHOOSE i \in 1..Len(r.m_vars) : r.m_vars[i].m_id = id].m_coeff
    ELSE 0

RowIds(r) == {r.m_vars[i].m_id : i \in 1..Len(r.m_vars)}

RECURSIVE VarsOf(_, _)
\* the (id, coeff) vector of the non-zero entries of f over ids, by id
VarsOf(ids, f) ==
    IF ids = {} THEN <<>>
    ELSE LET i == CHOOSE i \in ids : \A j \in ids : i <= j
         IN (IF f[i] # 0 THEN <<var(i, f[i])>> ELSE <<>>) \o VarsOf(ids \ {i}, f)

\* the row p * r1 + q * r2, of type ty
Combine(p, r1, q, r2, ty) ==
    LET ids == RowIds(r1) \cup RowIds(r2)
        f == [i \in ids |-> p * CoeffOf(r1, i) + q * CoeffOf(r2, i)]
    IN [m_vars |-> VarsOf(ids, f), m_coeff |-> p * r1.m_coeff + q * r2.m_coeff,
        m_type |-> ty, m_mod |-> 0]

Abs(i) == IF i < 0 THEN 0 - i ELSE i

RECURSIVE SelectRows(_, _)
\* the rows whose index is in idx, in order
SelectRows(rows, idx) ==
    IF rows = <<>> THEN <<>>
    ELSE (IF 1 \in idx THEN <<Head(rows)>> ELSE <<>>)
         \o SelectRows(Tail(rows), {i - 1 : i \in idx \ {1}})

RECURSIVE SortedIdx(_)
\* the indices of idx in increasing order
SortedIdx(idx) ==
    IF idx = {} THEN <<>>
    ELSE LET i == CHOOSE i \in idx : \A j \in idx : i <= j
         IN <<i>> \o SortedIdx(idx \ {i})

project_var(rows, x, val) ==
    LET n == Len(rows)
        with == {i \in 1..n : CoeffOf(rows[i], x) # 0 /\ rows[i].m_type # "t_mod"}
        keep == {i \in 1..n : CoeffOf(rows[i], x) = 0}
        eqs == {i \in with : rows[i].m_type = "t_eq"}
        lower == {i \in with : CoeffOf(rows[i], x) < 0}
        upper == {i \in with : CoeffOf(rows[i], x) > 0}
        a(i) == CoeffOf(rows[i], x)
        \* bound(i) = rest(i) / |a(i)| is the lower bound row i puts on x
        rest(i) == RowValue(rows[i], val) - a(i) * val[x + 1]
        strict(i) == rows[i].m_type = "t_lt"
        tighter(i, j) ==
            \/ rest(i) * Abs(a(j)) > rest(j) * Abs(a(i))
            \/ /\ rest(i) * Abs(a(j)) = rest(j) * Abs(a(i))
               /\ (strict(j) => strict(i))
        glb == CHOOSE g \in lower :
                   /\ \A j \in lower : tighter(g, j)
                   /\ \A j \in lower : (j < g) => ~(\A h \in lower : tighter(j, h))
        e == CHOOSE i \in eqs : \A j \in eqs : i <= j
        ByEq(r) == Combine(Abs(a(e)), r,
                           0 - (IF a(e) < 0 THEN 0 - 1 ELSE 1) * CoeffOf(r, x),
                           rows[e], r.m_type)
        ByGlb(r) ==
            IF CoeffOf(r, x) < 0
            THEN Combine(Abs(a(glb)), r, 0 - Abs(CoeffOf(r, x)), rows[glb],
                         IF r.m_type = "t_lt" /\ ~strict(glb) THEN "t_lt" ELSE "t_le")
            ELSE Combine(Abs(a(glb)), r, CoeffOf(r, x), rows[glb],
                         IF r.m_type = "t_lt" \/ strict(glb) THEN "t_lt" ELSE "t_le")
    IN SelectRows(rows, keep) \o
       (IF eqs # {}
        THEN LET q == SortedIdx(with \ {e})
             IN [k \in 1..Len(q) |-> ByEq(rows[q[k]])]
        ELSE IF lower # {} /\ upper # {}
        THEN LET q == SortedIdx(with \ {glb})
             IN [k \in 1..Len(q) |-> ByGlb(rows[q[k]])]
        ELSE <<>>)

RECURSIVE project_rows(_, _, _)
project_rows(rows, ids, val) ==
    IF ids = <<>> THEN rows
    ELSE project_rows(project_var(rows, Head(ids), val), Tail(ids), val)

\* mbo.project(num_vars, vars)
project(mbo, real_vars) ==
    [mbo EXCEPT !.m_rows = project_rows(@, real_vars, mbo.m_var2value)]

\* mbo.get_live_rows(rows)
get_live_rows(mbo) == mbo.m_rows

(***************************************************************************)
(* The projection driver, operator()(model, vars, fmls).                   *)
(***************************************************************************)
Range(q) == {q[i] : i \in 1..Len(q)}

\* has_arith: some variable of vars is arithmetic
has_arith(vars) == \E i \in 1..Len(vars) : is_arith(vars[i])

keep_literal_skip(fmls, j, fml) == fmls
\* fmls[j] = fmls[i] for a literal that stays (positions from 0 in the source)
keep_literal(fmls, j, fml) == [fmls EXCEPT ![j + 1] = fml]

\* fmls.resize(j)
resize(fmls, j) == SubSeq(fmls, 1, j)

\* the loop over fmls: a literal stays (at position j) iff linearize fails.
\* i is the next position, j the number of literals kept so far; trace
\* records, per literal visited, what linearize returned and added.
trace_entry(S, fml, r) ==
    [lit |-> fml, ok |-> r.ok,
     rows |-> SubSeq(r.mbo.m_rows, Len(S.mbo.m_rows) + 1, Len(r.mbo.m_rows)),
     side |-> SubSeq(r.fmls, Len(S.fmls) + 1, Len(r.fmls)),
     tids |-> r.tids]

RECURSIVE linearize_loop(_, _, _, _, _)
loop_step(M, i, j, trace, fml, r) ==
    IF ~r.ok
    THEN linearize_loop(M, [r EXCEPT !.fmls = keep_literal(@, j, fml)],
                        i + 1, j + 1, trace)
    ELSE linearize_loop(M, r, i + 1, j, trace)

linearize_visit(M, S, i, j, trace, r) ==
    loop_step(M, i, j, Append(trace, trace_entry(S, S.fmls[i], r)), S.fmls[i], r)

linearize_loop(M, S, i, j, trace) ==
    IF i > Len(S.fmls)
    THEN [mbo |-> S.mbo, tids |-> S.tids, fmls |-> resize(S.fmls, j),
          trace |-> trace]
    ELSE linearize_visit(M, S, i, j, trace, linearize(M, S, S.fmls[i]))

\* registers the arithmetic variables of vars that linearization did not
RECURSIVE register_vars(_, _, _)
register_vars(M, S, vars) ==
    IF vars = <<>> THEN S
    ELSE LET v == Head(vars)
         IN IF is_arith(v) /\ v \notin DOMAIN S.tids
            THEN register_vars(M,
                     [S EXCEPT !.tids = (v :> add_var_id(S.mbo)) @@ @,
                               !.mbo = add_var(@, EvalA(M, v), is_int(v))],
                     Tail(vars))
            ELSE register_vars(M, S, Tail(vars))

\* the marks set on the residue: fmls_mark.mark(fmls[i]) marks the literal
\* node itself
mark_residue(fmls) == Range(fmls)

\* the terms of tids that are not variables of vars are marked recursively
mark_tids(marks, tids, var_mark) ==
    marks \cup UNION {mark_rec({}, e) : e \in DOMAIN tids \ var_mark}

mk_index2expr(tids) ==
    [id \in {tids[e] : e \in DOMAIN tids} |-> CHOOSE e \in DOMAIN tids : tids[e] = id]

\* a variable is handed to the engine iff it is arithmetic and unmarked
is_real_var(v, fmls_mark) == is_arith(v) /\ v \notin fmls_mark

RECURSIVE real_vars_of(_, _, _)
real_vars_of(vars, tids, fmls_mark) ==
    IF vars = <<>> THEN <<>>
    ELSE (IF is_real_var(Head(vars), fmls_mark) THEN <<tids[Head(vars)]>> ELSE <<>>)
         \o real_vars_of(Tail(vars), tids, fmls_mark)

RECURSIVE kept_vars_of(_, _)
kept_vars_of(vars, fmls_mark) ==
    IF vars = <<>> THEN <<>>
    ELSE (IF is_real_var(Head(vars), fmls_mark) THEN <<>> ELSE <<Head(vars)>>)
         \o kept_vars_of(Tail(vars), fmls_mark)

unit_rhs_neg(r) == 0 - r.m_coeff
\* the right-hand side of a lifted unit row (one variable, negative coefficient)
unit_rhs(r) == r.m_coeff
\* the right-hand side of a lifted general row
general_rhs_sign(r) == r.m_coeff
general_rhs(r) == 0 - r.m_coeff

lift_unit(r, index2expr) ==
    LET v == r.m_vars[1]
        t0 == index2expr[v.m_id]
        t == IF v.m_coeff # 0 - 1
             THEN mk_mul(mk_numeral(0 - v.m_coeff, is_int(t0)), t0) ELSE t0
        s == mk_numeral(unit_rhs(r), is_int(t))
    IN CASE r.m_type = "t_lt" -> mk_gt(t, s)
         [] r.m_type = "t_le" -> mk_ge(t, s)
         [] r.m_type = "t_eq" -> mk_eq(t, s)

lift_general(r, index2expr) ==
    LET ts == [j \in 1..Len(r.m_vars) |->
                  LET v == r.m_vars[j]
                      t0 == index2expr[v.m_id]
                  IN IF v.m_coeff # 1
                     THEN mk_mul(mk_numeral(v.m_coeff, is_int(t0)), t0) ELSE t0]
        s == mk_numeral(general_rhs(r), is_int(ts[Len(ts)]))
        t == IF Len(ts) = 1 THEN ts[1] ELSE mk_add(ts)
    IN CASE r.m_type = "t_lt" -> mk_lt(t, s)
         [] r.m_type = "t_le" -> mk_le(t, s)
         [] r.m_type = "t_eq" -> mk_eq(t, s)
         [] r.m_type = "t_mod" ->
                mk_eq(mk_mod(IF r.m_coeff # 0 THEN mk_sub(t, s) ELSE t,
                             mk_numeral(r.m_mod, TRUE)),
                      mk_numeral(0, TRUE))

is_unit_row(r) ==
    Len(r.m_vars) = 1 /\ r.m_vars[1].m_coeff < 0 /\ r.m_type # "t_mod"

lift_row(r, index2expr) ==
    IF is_unit_row(r) THEN lift_unit(r, index2expr) ELSE lift_general(r, index2expr)

RECURSIVE lift_rows(_, _)
lift_rows(rows, index2expr) ==
    IF rows = <<>> THEN <<>>
    ELSE (IF Len(Head(rows).m_vars) = 0 THEN <<>>
          ELSE <<lift_row(Head(rows), index2expr)>>)
         \o lift_rows(Tail(rows), index2expr)

NoRun(vars, fmls) ==
    [ran |-> FALSE, vars |-> vars, fmls |-> fmls, residue |-> fmls,
     trace |-> <<>>, tids |-> EmptyMap, index2expr |-> EmptyMap,
     fmls_mark |-> {}, real_vars |-> <<>>, submitted |-> mbo_init,
     rows |-> <<>>]

\* the lifting of the surviving rows and the results of the call
project_lift(vars, L, R, fmls_mark, index2expr, real_vars, rows) ==
    [ran |-> TRUE,
     vars |-> kept_vars_of(vars, fmls_mark),
     fmls |-> L.fmls \o lift_rows(rows, index2expr),
     residue |-> L.fmls, trace |-> L.trace, tids |-> R.tids,
     index2expr |-> index2expr, fmls_mark |-> fmls_mark,
     real_vars |-> real_vars, submitted |-> R.mbo, rows |-> rows]

\* mbo.project(real_vars); mbo.get_live_rows(rows)
project_engine(vars, L, R, fmls_mark, real_vars) ==
    project_lift(vars, L, R, fmls_mark, mk_index2expr(R.tids), real_vars,
                 get_live_rows(project(R.mbo, real_vars)))

\* the partition of vars by the marks
project_partition(vars, L, R, fmls_mark) ==
    project_engine(vars, L, R, fmls_mark, real_vars_of(vars, R.tids, fmls_mark))

\* the marks: the residue, then the terms of tids that are not variables
project_scope(vars, L, R) ==
    project_partition(vars, L, R,
                      mark_tids(mark_residue(L.fmls), R.tids, Range(vars)))

\* the registration of the variables of vars
project_register(M, vars, L) == project_scope(vars, L, register_vars(M, L, vars))

\* operator()(model, vars, fmls): the new vars and fmls, and what the call
\* computed on the way
Projection(M, vars, fmls) ==
    IF ~has_arith(vars) THEN NoRun(vars, fmls)
    ELSE project_register(M, vars,
             linearize_loop(M, [mbo |-> mbo_init, tids |-> EmptyMap,
                                fmls |-> fmls], 1, 0, <<>>))

project_one_result_neg(vs) == vs # <<>>
\* operator()(model, v, vars, lits): vs = [v]; operator()(model, vs, lits);
\* return vs.empty()
project_one_result(vs) == vs = <<>>

(***************************************************************************)
(* The optimizer driver, maximize(fmls0, mdl, t, ge, gt).                  *)
(* A value (opt::inf_eps) is [inf, r, eps]: infinite iff inf # 0, else     *)
(* r + eps * epsilon.                                                      *)
(***************************************************************************)
is_finite(value) == value.inf = 0
get_rational(value) == value.r
get_infinitesimal(value) == value.eps

\* the loop over the copy of fmls0: every literal is linearized, results
\* are ignored, side formulas are appended and linearized in turn
\* hist is the term-to-id map after the objective and after every literal
RECURSIVE maximize_loop(_, _, _, _)
maximize_visit(M, i, hist, r) == maximize_loop(M, r, i + 1, Append(hist, r.tids))

maximize_loop(M, S, i, hist) ==
    IF i > Len(S.fmls)
    THEN [mbo |-> S.mbo, tids |-> S.tids, fmls |-> S.fmls, hist |-> hist]
    ELSE maximize_visit(M, i, hist, linearize(M, S, S.fmls[i]))

\* what maximize builds in the engine before mbo.maximize()
maximize_constraints(M, A, ec) ==
    maximize_loop(M, [mbo |-> set_objective(ec.mbo, ec.coeffs, A.c),
                      tids |-> ec.tids, fmls |-> A.fmls], 1, <<ec.tids>>)

maximize_objective(M, A) ==
    maximize_constraints(M, A, extract_coefficients(M, A.mbo, A.ts, A.tids))

maximize_setup(F0, M, t) ==
    maximize_objective(M,
        linearize_term(M, [mbo |-> mbo_init, tids |-> EmptyMap, fmls |-> F0,
                           ts |-> EmptyMap, c |-> 0], 1, t))

\* mdl.register_decl(f, mbo.get_value(id)) for the uninterpreted constants
update_model(M, tids, get_value) ==
    [n \in DOMAIN M |->
        IF \E e \in DOMAIN tids : is_uninterp_const(e) /\ e.n = n
        THEN get_value[tids[CHOOSE e \in DOMAIN tids :
                                 is_uninterp_const(e) /\ e.n = n] + 1]
        ELSE M[n]]

witness_bounds_nonneg(t, value, val, tval) ==
    IF ~is_finite(value) THEN [ge |-> mk_ge(t, tval), gt |-> mk_false]
    ELSE IF get_infinitesimal(value) <= 0
         THEN [ge |-> mk_ge(t, tval), gt |-> mk_ge(t, val)]
         ELSE [ge |-> mk_ge(t, val), gt |-> mk_gt(t, val)]

\* the bounds ge and gt, by the three cases on value
witness_bounds(t, value, val, tval) ==
    IF ~is_finite(value) THEN [ge |-> mk_ge(t, tval), gt |-> mk_false]
    ELSE IF get_infinitesimal(value) < 0
         THEN [ge |-> mk_ge(t, tval), gt |-> mk_ge(t, val)]
         ELSE [ge |-> mk_ge(t, val), gt |-> mk_gt(t, val)]

\* maximize, given what the engine answers: opt = [value, m_var2value]
maximize_result(t, S, opt, mdl, b) ==
    [mdl |-> mdl, value |-> opt.value, ge |-> b.ge, gt |-> b.gt,
     tids |-> S.tids, t |-> t, submitted |-> S.mbo, hist |-> S.hist]

maximize_bounds(t, S, opt, mdl) ==
    maximize_result(t, S, opt, mdl,
        witness_bounds(t, opt.value, mk_numeral(get_rational(opt.value), FALSE),
                       mk_numeral(EvalA(mdl, t), FALSE)))

maximize(F0, M, t, S, opt) ==
    maximize_bounds(t, S, opt, update_model(M, S.tids, opt.m_var2value))

\* mbo.maximize() with mbo.get_value, from the contract: the new values
\* satisfy every row and do not lower the objective; a finite value is the
\* objective at the new values, exactly (eps >= 0) or as a supremum that is
\* not attained (eps < 0)
Assignments(n) == [1..n -> Vals]
engine_maximize(mbo) ==
    LET n == Len(mbo.m_var2value)
        obj(val) == RowValue(mbo.m_objective, val)
        good == {nv \in Assignments(n) :
                    /\ \A i \in 1..Len(mbo.m_rows) : RowHolds(mbo.m_rows[i], nv)
                    /\ obj(nv) >= obj(mbo.m_var2value)}
    IN UNION {{[value |-> [inf |-> 1, r |-> 0, eps |-> 0], m_var2value |-> nv],
               [value |-> [inf |-> 0, r |-> obj(nv), eps |-> 0], m_var2value |-> nv],
               [value |-> [inf |-> 0, r |-> obj(nv), eps |-> 1], m_var2value |-> nv],
               [value |-> [inf |-> 0, r |-> obj(nv) + 1, eps |-> 0 - 1],
                m_var2value |-> nv]} : nv \in good}

(***************************************************************************)
(* Inputs.  x, y are integer constants, w a real one, b a Boolean one and  *)
(* p an uninterpreted predicate.                                           *)
(***************************************************************************)
vx == Var("x", "int")
vy == Var("y", "int")
vw == Var("w", "real")
vb == Var("b", "bool")
px == App("p", "bool", <<vx>>)
N(i) == Num(i, "int")
Q(i) == Num(i, "real")

\* the literals an input list is drawn from
Pool ==
    << mk_le(vx, N(1)),
       mk_ge(vx, vy),
       mk_lt(vy, mk_add(<<vx, N(1)>>)),
       mk_not(mk_le(vx, vy)),
       mk_eq(mk_mul(N(2), vx), vy),
       mk_not(mk_eq(vx, vy)),
       mk_le(mk_ite(vb, vx, mk_add(<<vx, N(1)>>)), N(2)),
       mk_le(mk_ite(mk_le(vy, N(0)), vx, vy), N(1)),
       mk_le(mk_mod(mk_add(<<vx, vy>>), N(2)), vy),
       px,
       mk_not(vb),
       mk_distinct(<<vx, vy, N(1)>>),
       mk_not(mk_distinct(<<vx, vy, N(1)>>)),
       mk_gt(vw, mk_sub(Q(1), vw)),
       mk_le(mk_mul(vw, Q(2)), mk_uminus(Q(0 - 2))),
       mk_le(mk_mul(vx, vy), N(1)),
       mk_not(mk_gt(mk_uminus(vx), mk_sub(vy, N(1)))),
       mk_le(mk_add(<<vx, vy>>), mk_add(<<vy, N(1)>>)) >>

\* the variable lists handed to project
VarLists == { <<vx>>, <<vy>>, <<vx, vy>>, <<vw>>, <<vb, vy>>, <<vb>> }

Models == [x : Vals, y : Vals, w : Vals, b : BOOLEAN, p : BOOLEAN]

\* literal lists: at most MaxLits literals of Pool, in Pool order
IdxLists ==
    UNION {{q \in [1..n -> 1..Len(Pool)] : \A i \in 1..(n - 1) : q[i] < q[i + 1]}
           : n \in 0..MaxLits}
LitsOf(q) == [i \in 1..Len(q) |-> Pool[q[i]]]

AllTrue(M, lits) == \A i \in 1..Len(lits) : EvalB(M, lits[i])

VARIABLES model, vars, fmls, pc, call, res

sv == <<model, vars, fmls, pc, call, res>>

NoCall == [vars |-> <<>>, fmls |-> <<>>]

Init ==
    /\ model \in Models
    /\ \E q \in IdxLists : fmls = LitsOf(q)
    /\ AllTrue(model, fmls)
    /\ vars \in VarLists
    /\ pc = "start"
    /\ call = NoCall
    /\ res = NoRun(<<>>, <<>>)

\* project(M, V, L)
Project ==
    /\ pc = "start"
    /\ \E P \in {Projection(model, vars, fmls)} :
          /\ vars' = P.vars
          /\ fmls' = P.fmls
          /\ res' = P
    /\ call' = [vars |-> vars, fmls |-> fmls]
    /\ pc' = "project"
    /\ UNCHANGED model

\* project-one(M, v, L): arith_project(model, var, lits)
\* (the variable is the head of vars; the list arith_project passes as vars
\* is ignored by the callee)
project_one_return(P) == [ret |-> project_one_result(P.vars)] @@ P
project_one(M, v, lits) == project_one_return(Projection(M, <<v>>, lits))

ProjectOne ==
    /\ pc = "start"
    /\ \E P \in {project_one(model, Head(vars), fmls)} :
          /\ fmls' = P.fmls
          /\ res' = P
          /\ call' = [vars |-> <<Head(vars)>>, fmls |-> fmls]
    /\ pc' = "project_one"
    /\ UNCHANGED <<model, vars>>

\* linearize-literal on one literal of the list, with a fresh engine
Linearize ==
    /\ pc = "start"
    /\ \E i \in 1..Len(fmls) :
          \E r \in {linearize(model, [mbo |-> mbo_init, tids |-> EmptyMap,
                                       fmls |-> fmls], fmls[i])} :
             /\ fmls' = r.fmls
             /\ res' = r
             /\ call' = [vars |-> <<>>, fmls |-> fmls, lit |-> fmls[i]]
    /\ pc' = "linearize"
    /\ UNCHANGED <<model, vars>>

\* linearize-term on an arithmetic sub-term of the list, with a fresh
\* engine and an accumulator that holds only the constant c0
ArithTerms(lits) == {t \in SubtermsOfSeq(lits) : is_arith(t)}
LinearizeTerm ==
    /\ pc = "start"
    /\ \E t \in ArithTerms(fmls) : \E mul \in {0 - 1, 1, 2} : \E c0 \in {0, 1} :
          \E r \in {linearize_term(model, [mbo |-> mbo_init, tids |-> EmptyMap,
                                            fmls |-> fmls, ts |-> EmptyMap,
                                            c |-> c0], mul, t)} :
             /\ fmls' = r.fmls
             /\ res' = r
             /\ call' = [vars |-> <<>>, fmls |-> fmls, t |-> t, mul |-> mul,
                         c |-> c0]
    /\ pc' = "linearize_term"
    /\ UNCHANGED <<model, vars>>

\* maximize(F0, M, t): F0 is not changed, M is updated
ObjTerms == {vw, mk_sub(Q(1), mk_mul(Q(2), vw))}
Maximize ==
    /\ pc = "start"
    /\ \E t \in ObjTerms :
          \E S \in {maximize_setup(fmls, model, t)} :
             \E opt \in engine_maximize(S.mbo) :
                \E r \in {maximize(fmls, model, t, S, opt)} :
                   /\ model' = r.mdl
                   /\ res' = r
                   /\ call' = [vars |-> <<>>, fmls |-> fmls, t |-> t,
                               model |-> model]
    /\ pc' = "maximize"
    /\ UNCHANGED <<vars, fmls>>

Next == Project \/ ProjectOne

Spec == Init /\ [][Next]_sv

\* the linearizer alone
InitLin == Init /\ vars = <<vx>>
SpecLin == InitLin /\ [][Linearize \/ LinearizeTerm]_sv

\* the optimizer
SpecMax == InitLin /\ [][Maximize]_sv

\* the calls that own a term-to-id map: project, project-one and maximize
\* (maximize does not read vars, one list is enough)
MaximizeCall == vars = <<vw>> /\ Maximize
SpecCall == Init /\ [][Project \/ ProjectOne \/ MaximizeCall]_sv

(***************************************************************************)
(* Properties.                                                             *)
(***************************************************************************)
AfterProject == pc \in {"project", "project_one"}

\* the variables the call eliminated: removed from the list and handed to
\* the engine's project
Eliminated ==
    {v \in Range(call.vars) :
        /\ v \notin Range(res.vars)
        /\ v \in DOMAIN res.tids
        /\ res.tids[v] \in Range(res.real_vars)}

RECURSIVE NonEmptyRows(_)
NonEmptyRows(rows) ==
    IF rows = <<>> THEN <<>>
    ELSE (IF Len(Head(rows).m_vars) = 0 THEN <<>> ELSE <<Head(rows)>>)
         \o NonEmptyRows(Tail(rows))

\* the surviving rows that are lifted, and the literals they were lifted to
LiveRows == NonEmptyRows(res.rows)
Lifted == SubSeq(fmls, Len(res.residue) + 1, Len(fmls))

IsUnit(r) == Len(r.m_vars) = 1 /\ r.m_vars[1].m_coeff < 0 /\ r.m_type # "t_mod"

\* C1: after project every literal of L is true in M, the residue and the
\* literals lifted from the surviving rows alike.
C1_Preservation ==
    AfterProject => \A i \in 1..Len(fmls) : EvalB(model, fmls[i])

\* a residue literal, a unit-bound row, a general row and a mod row in one call
C1_Witness ==
    /\ pc = "project"
    /\ Len(res.residue) >= 1
    /\ Len(Lifted) = Len(LiveRows)
    /\ \E i \in 1..Len(LiveRows) : IsUnit(LiveRows[i])
    /\ \E i \in 1..Len(LiveRows) : LiveRows[i].m_type = "t_mod"
    /\ \E i \in 1..Len(LiveRows) :
          ~IsUnit(LiveRows[i]) /\ LiveRows[i].m_type # "t_mod"

\* C2: after project no literal of L contains a variable that project
\* eliminated.
C2_Scope ==
    AfterProject =>
        \A i \in 1..Len(fmls) : \A v \in Eliminated : v \notin Subterms(fmls[i])

\* C7: an arithmetic variable of V that occurs inside a residue literal is
\* not handed to the engine's project and stays in V.
C7_ResidueVarsKept ==
    pc = "project" =>
        \A v \in Range(call.vars) :
            (is_arith(v) /\ \E l \in Range(res.residue) : v \in Subterms(l))
                => /\ res.tids[v] \notin Range(res.real_vars)
                   /\ v \in Range(vars)

\* the side formulas pushed during the call, in the order pushed
RECURSIVE SidesOf(_)
SidesOf(trace) ==
    IF trace = <<>> THEN <<>> ELSE Head(trace).side \o SidesOf(Tail(trace))
Sides == Range(SidesOf(res.trace))
GuardOf(s) == IF s.k = "not" THEN s.a[1] ELSE s
\* the guards of the ite terms met while linearizing
IteGuards ==
    {t.a[1] : t \in {u \in UNION {Subterms(res.trace[i].lit) :
                                     i \in {j \in 1..Len(res.trace) : res.trace[j].ok}} :
                        u.k = "ite"}}

\* C3 as stated: for every ite met while linearizing, the final L contains
\* the guard when it is true in M and its negation when it is false.
C3_GuardInOutput ==
    pc = "project" =>
        \A g \in IteGuards :
            /\ EvalB(model, g) => g \in Range(fmls)
            /\ ~EvalB(model, g) => mk_not(g) \in Range(fmls)

\* C3 amended: the guard (or its negation, as M decides) is appended to L
\* and visited by the same loop; it is in the final L when linearize-literal
\* returns false on it, and otherwise it is absorbed into an engine row.
C3_GuardRecorded ==
    pc = "project" =>
        \A g \in IteGuards :
            LET s == IF EvalB(model, g) THEN g ELSE mk_not(g)
            IN /\ s \in Sides
               /\ mk_not(s) \notin Sides
               /\ \E i \in 1..Len(res.trace) :
                     /\ res.trace[i].lit = s
                     /\ ~res.trace[i].ok => s \in Range(res.residue)
                                            /\ s \in Range(fmls)
                     /\ res.trace[i].ok => Len(res.trace[i].rows) >= 1

\* one guard kept as residue and one absorbed that the output does not hold
C3_Witness ==
    /\ pc = "project"
    /\ \E s \in Sides : s \in Range(res.residue)
    /\ \E s \in Sides : s \notin Range(fmls) /\ ~EvalB(model, GuardOf(s))

\* C4: project-one returns true iff v is no longer in its one-element list:
\* false when v is not arithmetic (L unchanged) and when v is arithmetic
\* and marked (kept as scope-escaping), true otherwise.
C4_ProjectOne ==
    pc = "project_one" =>
        LET v == call.vars[1]
        IN /\ res.ret <=> v \notin Range(res.vars)
           /\ ~is_arith(v) => (~res.ret /\ fmls = call.fmls /\ ~res.ran)
           /\ (is_arith(v) /\ v \in res.fmls_mark) => ~res.ret
           /\ (is_arith(v) /\ v \notin res.fmls_mark) =>
                  (res.ret /\ res.real_vars = <<res.tids[v]>>)

\* the variable was eliminated between two bounds, leaving a lifted row
C4_Witness ==
    /\ pc = "project_one"
    /\ res.ret
    /\ Len(call.fmls) = 2
    /\ res.residue = <<>>
    /\ Len(fmls) >= 1

\* C6: the literals on which linearize-literal returns false stay in L, in
\* their order and unchanged, and have added no row and no side formula;
\* the literals on which it returns true are removed.
RECURSIVE FailedLits(_)
FailedLits(trace) ==
    IF trace = <<>> THEN <<>>
    ELSE (IF Head(trace).ok THEN <<>> ELSE <<Head(trace).lit>>)
         \o FailedLits(Tail(trace))

C6_Residue ==
    pc = "project" /\ res.ran =>
        /\ [i \in 1..Len(res.trace) |-> res.trace[i].lit]
               = call.fmls \o SidesOf(res.trace)
        /\ res.residue = FailedLits(res.trace)
        /\ SubSeq(fmls, 1, Len(res.residue)) = FailedLits(res.trace)
        /\ Len(fmls) = Len(res.residue) + Len(LiveRows)
        /\ \A i \in 1..Len(res.trace) :
              ~res.trace[i].ok =>
                  res.trace[i].rows = <<>> /\ res.trace[i].side = <<>>

\* a consumed literal followed by two residue literals
C6_Witness ==
    /\ pc = "project"
    /\ Len(res.trace) >= 3
    /\ res.trace[1].ok
    /\ Len(res.residue) >= 2
    /\ res.residue[1] # res.residue[2]

\* the literal a unit row is lifted to, with right-hand side rhs
UnitLiteral(r, rhs) ==
    LET x == res.index2expr[r.m_vars[1].m_id]
        k == 0 - r.m_vars[1].m_coeff
        lhs == IF k = 1 THEN x ELSE Op("mul", x.s, <<Num(k, x.s), x>>)
        rel == CASE r.m_type = "t_lt" -> "gt"
                 [] r.m_type = "t_le" -> "ge"
                 [] r.m_type = "t_eq" -> "eq"
    IN Op(rel, "bool", <<lhs, Num(rhs, x.s)>>)

\* C8 as stated: a surviving row coeff*x + c R 0 with one variable, a
\* negative coefficient and a type other than mod is lifted to
\* (-coeff)*x R' (-c), R' the mirror of R.
C8_UnitLiftNegatedConstant ==
    pc = "project" =>
        \A i \in 1..Len(LiveRows) :
            IsUnit(LiveRows[i]) =>
                Lifted[i] = UnitLiteral(LiveRows[i], 0 - LiveRows[i].m_coeff)

\* C8 amended: such a row is lifted to (-coeff)*x R' c, the right-hand side
\* being the row's constant c itself (and the left-hand side x alone when
\* coeff = -1).
C8_UnitLift ==
    pc = "project" =>
        \A i \in 1..Len(LiveRows) :
            IsUnit(LiveRows[i]) =>
                Lifted[i] = UnitLiteral(LiveRows[i], LiveRows[i].m_coeff)

\* a unit row with a coefficient other than -1 and a non-zero constant
C8_Witness ==
    /\ pc = "project"
    /\ \E i \in 1..Len(LiveRows) :
          /\ IsUnit(LiveRows[i])
          /\ LiveRows[i].m_coeff # 0
          /\ LiveRows[i].m_vars[1].m_coeff < 0 - 1
          /\ Lifted[i] = UnitLiteral(LiveRows[i], LiveRows[i].m_coeff)

\* C5: maximize sets ge and gt by three cases on the engine's value:
\* not finite: ge is t >= M(t), gt is false; finite with negative
\* infinitesimal: ge is t >= M(t), gt is t >= value; finite with zero or
\* positive infinitesimal: ge is t >= value, gt is t > value (value: the
\* rational part; M: the model as maximize leaves it).
C5_WitnessBounds ==
    pc = "maximize" =>
        LET t == call.t
            Mt == Num(EvalA(model, t), "real")
            value == Num(res.value.r, "real")
        IN /\ res.value.inf # 0 =>
                  res.ge = Op("ge", "bool", <<t, Mt>>) /\ res.gt = mk_false
           /\ (res.value.inf = 0 /\ res.value.eps < 0) =>
                  /\ res.ge = Op("ge", "bool", <<t, Mt>>)
                  /\ res.gt = Op("ge", "bool", <<t, value>>)
           /\ (res.value.inf = 0 /\ res.value.eps >= 0) =>
                  /\ res.ge = Op("ge", "bool", <<t, value>>)
                  /\ res.gt = Op("gt", "bool", <<t, value>>)

\* a finite value with negative infinitesimal, the model having changed
C5_Witness ==
    /\ pc = "maximize"
    /\ res.value.inf = 0
    /\ res.value.eps < 0
    /\ model # call.model
    /\ res.value.r # EvalA(model, call.t)
    /\ res.gt = Op("ge", "bool", <<call.t, Num(res.value.r, "real")>>)

\* the seeds the registered terms get under a model
SeedsOf(M, tids) ==
    LET i2e == mk_index2expr(tids)
    IN [i \in 1..Cardinality(DOMAIN tids) |-> EvalA(M, i2e[i - 1])]

\* M takes the branches and the remainders that the model takes in t
SameBranches(M, t) ==
    \A u \in Subterms(t) :
        /\ u.k = "ite" => (EvalB(M, u.a[1]) <=> EvalB(model, u.a[1]))
        /\ u.k = "mod" => EvalA(M, u) = EvalA(model, u)

\* a row over terms instead of ids
RowOverTerms(r, tids) ==
    LET i2e == mk_index2expr(tids)
    IN [vs |-> {<<i2e[r.m_vars[i].m_id], r.m_vars[i].m_coeff>> :
                   i \in 1..Len(r.m_vars)},
        c |-> r.m_coeff, ty |-> r.m_type]

IsComparison(l) == l.k \in {"le", "lt", "ge", "gt"}
Unnegated(l) == IF l.k = "not" THEN l.a[1] ELSE l
\* e1 and e2 of the shapes e1 <= e2, e2 >= e1, e1 < e2, e2 > e1
SmallSide(l) == IF l.k \in {"le", "lt"} THEN l.a[1] ELSE l.a[2]
LargeSide(l) == IF l.k \in {"le", "lt"} THEN l.a[2] ELSE l.a[1]
\* not (a <= b) as b < a, not (a < b) as b <= a, and so for >= and >
Mirror(l) ==
    Op(CASE l.k = "le" -> "lt" [] l.k = "lt" -> "le"
         [] l.k = "ge" -> "gt" [] l.k = "gt" -> "ge",
       "bool", <<l.a[2], l.a[1]>>)

ConstraintRows(rows) == {i \in 1..Len(rows) : rows[i].m_type # "t_mod"}

\* C9: for e1 <= e2 and e1 < e2 (also written e2 >= e1, e2 > e1)
\* linearize-literal submits exactly one constraint row, that of e1 - e2
\* with type <= resp. <; under a negation the coefficients and the constant
\* are negated and the type flips, the row being that of the mirrored
\* literal (not (a <= b) gives the row of b < a).
C9_ComparisonRow ==
    (pc = "linearize" /\ IsComparison(Unnegated(call.lit))) =>
        LET neg == call.lit.k = "not"
            l == Unnegated(call.lit)
            strict == l.k \in {"lt", "gt"}
            rows == res.mbo.m_rows
            r == rows[Len(rows)]
            sgn == IF neg THEN 0 - 1 ELSE 1
        IN /\ res.ok
           /\ ConstraintRows(rows) = {Len(rows)}
           /\ r.m_type = (IF strict <=> neg THEN "t_le" ELSE "t_lt")
           /\ \A i \in 1..Len(r.m_vars) : r.m_vars[i].m_coeff # 0
           /\ \A M \in Models :
                 SameBranches(M, l) =>
                     RowValue(r, SeedsOf(M, res.tids))
                         = sgn * (EvalA(M, SmallSide(l)) - EvalA(M, LargeSide(l)))
           /\ neg =>
                 LET m == linearize(model, [mbo |-> mbo_init, tids |-> EmptyMap,
                                            fmls |-> call.fmls], Mirror(l))
                 IN RowOverTerms(m.mbo.m_rows[Len(m.mbo.m_rows)], m.tids)
                        = RowOverTerms(r, res.tids)

\* a negated non-strict comparison over two variables
C9_Witness ==
    /\ pc = "linearize"
    /\ call.lit.k = "not"
    /\ call.lit.a[1].k = "le"
    /\ Len(res.mbo.m_rows) = 1
    /\ Len(res.mbo.m_rows[1].m_vars) = 2
    /\ res.mbo.m_rows[1].m_type = "t_lt"

HasMod(t) == \E u \in Subterms(t) : u.k = "mod"

\* C10: on u mod k, k a constant, linearize-term adds mul * r, r = M(u mod k),
\* to the constant of the enclosing accumulator and no coefficient to it,
\* and submits one divisibility row with modulus k and linear part u - r.
C10_ModRow ==
    (pc = "linearize_term" /\ call.t.k = "mod" /\ call.t.a[2].k = "num") =>
        LET u == call.t.a[1]
            r == EvalA(model, call.t)
            rows == res.mbo.m_rows
            d == rows[Len(rows)]
        IN /\ res.ts = EmptyMap
           /\ res.c = call.c + call.mul * r
           /\ Len(rows) >= 1
           /\ ~HasMod(u) => Len(rows) = 1
           /\ d.m_type = "t_mod"
           /\ d.m_mod = call.t.a[2].v
           /\ RowHolds(d, SeedsOf(model, res.tids))
           /\ \A M \in Models :
                 SameBranches(M, u) =>
                     RowValue(d, SeedsOf(M, res.tids)) = EvalA(M, u) - r

\* a remainder other than 0 under a multiplier other than 1
C10_Witness ==
    /\ pc = "linearize_term"
    /\ call.t.k = "mod"
    /\ EvalA(model, call.t) # 0
    /\ call.mul = 2
    /\ res.c = call.c + 2
    /\ Len(res.mbo.m_rows) = 1

\* the term-to-id map as the call saw it: after each visited literal (in
\* maximize also after the objective), then as the call left it
TidsHistory ==
    IF pc = "maximize" THEN Append(res.hist, res.tids)
    ELSE Append([i \in 1..Len(res.trace) |-> res.trace[i].tids], res.tids)

Injective(f) == \A e1, e2 \in DOMAIN f : f[e1] = f[e2] => e1 = e2

\* g maps every term of f to the id f gives it
Extends(f, g) == \A e \in DOMAIN f : e \in DOMAIN g /\ g[e] = f[e]

\* the terms of the map that occur in no submitted row
ZeroCoeffTerms(tids, rows) ==
    {e \in DOMAIN tids : \A i \in 1..Len(rows) : tids[e] \notin RowIds(rows[i])}

\* C11: throughout one project or maximize call the term-to-id map is
\* injective and only grows (a registered term keeps its first id), the
\* engine has exactly one variable per registered term (no term is registered
\* twice, variables of V and zero-coefficient terms included), and in project
\* index2expr[tids[e]] = e for every registered term e.
C11_TidsInjectiveStable ==
    (pc \in {"project", "project_one", "maximize"}) =>
        LET H == TidsHistory
            n == Len(res.submitted.m_var2value)
        IN /\ \A i \in 1..Len(H) : Injective(H[i])
           /\ \A i \in 1..(Len(H) - 1) : Extends(H[i], H[i + 1])
           /\ Cardinality(DOMAIN res.tids) = n
           /\ {res.tids[e] : e \in DOMAIN res.tids} = 0..(n - 1)
           /\ pc # "maximize" =>
                 \A e \in DOMAIN res.tids : res.index2expr[res.tids[e]] = e

\* a project call in which a term registered by the first literal is used
\* again by the second, a term with coefficient zero was registered, and a
\* variable of V was registered after the loop
C11_Witness ==
    /\ pc = "project"
    /\ Len(res.trace) = 2
    /\ \E e \in DOMAIN res.trace[1].tids :
          \E i \in 1..Len(res.trace[2].rows) :
             res.tids[e] \in RowIds(res.trace[2].rows[i])
    /\ ZeroCoeffTerms(res.trace[2].tids, res.submitted.m_rows) # {}
    /\ \E v \in Range(call.vars) :
          v \in DOMAIN res.tids /\ v \notin DOMAIN res.trace[2].tids

\* the literals whose linearization goes through each of the listed shapes
NegatedComparison(lit) == lit.k = "not" /\ lit.a[1].k \in {"le", "lt", "ge", "gt"}
HasIte(t) == \E u \in Subterms(t) : u.k = "ite"

====
